---- MODULE Spec2Model ----
(***************************************************************************)
(* Model of code/app/main.go: a REST facade over a storage bucket.         *)
(* main constructs the storage gateway, registers five routes and serves;  *)
(* each request is handled by one of listHandler, createHandler,           *)
(* readHandler, deleteHandler, updateHandler, concurrently with the        *)
(* others.  The gateway (CloudStorage), NewImages and the Image JSON       *)
(* methods are declared elsewhere in the package and are modelled from     *)
(* their documented contract.                                              *)
(***************************************************************************)
EXTENDS Integers, Sequences, FiniteSets, TLC

\* ---- bounds ----
NumReq == 1          \* update requests in flight between their Delete and Create
MaxId == 2           \* object names / ids 1..MaxId
MaxContent == 2      \* distinct file contents 1..MaxContent

Reqs == 1..NumReq
Ids == 1..MaxId
Contents == 1..MaxContent
Absent == 0

\* ---- program constants ----
StatusOK == 200
StatusCreated == 201
StatusNoContent == 204
StatusInternalServerError == 500

\* the allow-list literal of createHandler
AllowedMimeTypes == <<"image/png", "image/jpeg", "image/gif">>

\* content types a file part may carry
MimeTypes == {"image/png", "image/jpeg", "image/gif", "", "IMAGE/PNG"}

Methods == {"GET", "OPTIONS", "POST", "PUT", "DELETE"}
Paths == {"/api/v1/image", "/api/v1/image/{id}"}

\* updateHandler never reads the part's Content-Type: one allowed and one
\* disallowed type stand for the rest
UpdateMimeTypes == {"image/png", ""}

NoFile == [present |-> FALSE, filename |-> 0, mimetype |-> "", content |-> 0]
Files == [present : {TRUE}, filename : Ids, mimetype : MimeTypes, content : Contents]

VARIABLES
  mainPc,      \* position of main: "start", "serving", "exited"
  constructed, \* NewCloudStorage returned a gateway
  closeCalls,  \* number of cs.Close() invocations
  store,       \* the bucket: name -> content, Absent when there is no object
  inflight,    \* update requests between their Delete and their Create
  last         \* the request whose handler returned most recently

vars == <<mainPc, constructed, closeCalls, store, inflight, last>>

\* ---- MimeMap ----
NewMimeMap(s) == {s[i] : i \in 1..Len(s)}

MimeMapValidFold(m, mimetype) ==
  \E a \in m : a = mimetype \/ (a = "image/png" /\ mimetype = "IMAGE/PNG")

MimeMapValid(m, mimetype) == mimetype \in m

\* ---- storage gateway ----
StoreRead(s, id) ==
  IF s[id] = Absent THEN <<>> ELSE <<[name |-> id, content |-> s[id]]>>

RECURSIVE StoreListFrom(_, _)
StoreListFrom(s, i) ==
  IF i > MaxId THEN <<>> ELSE StoreRead(s, i) \o StoreListFrom(s, i + 1)

StoreList(s) == StoreListFrom(s, 1)

StoreCreate(s, name, content) == [s EXCEPT ![name] = content]

StoreDelete(s, id) == [s EXCEPT ![id] = Absent]

\* ---- image mapper ----
Encode(c) == <<"enc", c>>

NewImage(d) == [id |-> d.name, content |-> Encode(d.content)]

NewImages(fs) == [i \in 1..Len(fs) |-> NewImage(fs[i])]

\* ---- response writer ----
ErrorBody(err) == [kind |-> "error", error |-> err]
EmptyBody == [kind |-> "empty"]

writeResponse(w, status, msg) ==
  Append(w, [status |-> status, body |-> msg, logged |-> (status # StatusOK)])

writeErrorMsgBadRequest(w, err) == writeResponse(w, 400, ErrorBody(err))

writeErrorMsg(w, err) == writeResponse(w, StatusInternalServerError, ErrorBody(err))

writeJSONNoReturn(w, j, status, jsonErr) ==
  IF jsonErr
    THEN writeResponse(writeErrorMsg(w, "could not marshal json for response"), status, j)
    ELSE writeResponse(w, status, j)

writeJSON(w, j, status, jsonErr) ==
  IF jsonErr
    THEN writeErrorMsg(w, "could not marshal json for response")
    ELSE writeResponse(w, status, j)

Message(text, details) == [kind |-> "message", text |-> text, details |-> details]

\* ---- requests ----
Call(op, arg, ok, n) == [op |-> op, arg |-> arg, ok |-> ok, n |-> n]

\* a request as its handler sees it: the route taken, the {id} of the path, the
\* myFile part, and what the handler has done so far: the calls made to the
\* gateway (List, Read, Create, Delete), to NewImages and to JSON, each with its
\* outcome and the number n of objects it found; whether MimeMap.Valid was
\* consulted; the responses written to w
NewRequest(route, id, file) ==
  [pc |-> route, route |-> route, id |-> id, file |-> file,
   calls |-> <<>>, validated |-> FALSE, w |-> <<>>]

Idle == NewRequest("idle", 0, NoFile)

Router(method, path) ==
  CASE path = "/api/v1/image" /\ method \in {"GET", "OPTIONS"} -> "list"
    [] path = "/api/v1/image" /\ method = "POST" -> "create"
    [] path = "/api/v1/image/{id}" /\ method = "GET" -> "read"
    [] path = "/api/v1/image/{id}" /\ method = "DELETE" -> "delete"
    [] path = "/api/v1/image/{id}" /\ method \in {"POST", "PUT"} -> "update"
    [] OTHER -> "static"

Done(q, calls, validated, w) ==
  [q EXCEPT !.pc = "done", !.calls = calls, !.validated = validated, !.w = w]

Init ==
  /\ mainPc = "start"
  /\ constructed = FALSE
  /\ closeCalls = 0
  /\ store \in [Ids -> Contents \cup {Absent}]
  /\ inflight = [r \in Reqs |-> Idle]
  /\ last = Idle

\* ---- main ----
NewCloudStorageOk ==
  /\ mainPc = "start"
  /\ mainPc' = "serving"
  /\ constructed' = TRUE
  /\ UNCHANGED <<closeCalls, store, inflight, last>>

NewCloudStorageFail ==
  /\ mainPc = "start"
  /\ mainPc' = "exited"
  /\ UNCHANGED <<constructed, closeCalls, store, inflight, last>>

\* http.ListenAndServe returns (always with an error); log.Fatal logs it and
\* calls os.Exit(1), which ends the process, its handler goroutines included,
\* without running deferred calls.
ListenAndServeFatal ==
  /\ mainPc = "serving"
  /\ mainPc' = "exited"
  /\ inflight' = [r \in Reqs |-> Idle]
  /\ UNCHANGED <<constructed, closeCalls, store, last>>

\* the router hands a request with this method and path to handler h
Routed(h) == \E method \in Methods, path \in Paths : Router(method, path) = h

Present(s, id) == IF s[id] = Absent THEN 0 ELSE 1

StorageOps == {"List", "Read", "Create", "Delete"}

\* the calls of q that went to the gateway
RECURSIVE StorageCalls(_)
StorageCalls(calls) ==
  IF calls = <<>> THEN <<>>
  ELSE IF calls[1].op \in StorageOps
    THEN <<calls[1]>> \o StorageCalls(Tail(calls))
    ELSE StorageCalls(Tail(calls))

\* the effect on the bucket of the latest gateway call of q, if it succeeded
Apply(s, q) ==
  LET sc == StorageCalls(q.calls) IN
  IF sc = <<>> \/ ~sc[Len(sc)].ok THEN s
  ELSE LET c == sc[Len(sc)] IN
       CASE c.op = "Create" -> StoreCreate(s, c.arg, q.file.content)
         [] c.op = "Delete" -> StoreDelete(s, c.arg)
         [] OTHER -> s

\* ---- listHandler ----
listHandlerRun(q, s, listErr, mapErr, jsonErr) ==
  LET fs == StoreList(s) IN
  IF listErr
    THEN Done(q, <<Call("List", 0, FALSE, 0)>>, FALSE,
              writeErrorMsg(q.w, "failed to list files"))
    ELSE IF mapErr /\ Len(fs) > 0
      THEN Done(q, <<Call("List", 0, TRUE, Len(fs)), Call("NewImages", 0, FALSE, 0)>>,
                FALSE,
                writeErrorMsg(q.w, "failed to convert files to images images"))
      ELSE Done(q, <<Call("List", 0, TRUE, Len(fs)), Call("NewImages", 0, TRUE, Len(fs)),
                     Call("JSON", 0, ~jsonErr, 0)>>,
                FALSE,
                writeJSON(q.w, [kind |-> "images", items |-> NewImages(fs)],
                          StatusOK, jsonErr))

listHandler ==
  /\ mainPc = "serving"
  /\ Routed("list")
  /\ \E listErr \in BOOLEAN, mapErr \in BOOLEAN, jsonErr \in BOOLEAN :
       last' = listHandlerRun(NewRequest("list", 0, NoFile), store,
                              listErr, mapErr, jsonErr)
  /\ UNCHANGED <<mainPc, constructed, closeCalls, store, inflight>>

\* ---- createHandler ----
createHandlerRun(q, createErr) ==
  IF ~q.file.present
    THEN Done(q, <<>>, FALSE, writeErrorMsg(q.w, "error retrieving file"))
    ELSE IF ~MimeMapValid(NewMimeMap(AllowedMimeTypes), q.file.mimetype)
      THEN Done(q, <<>>, TRUE, writeErrorMsg(q.w, "invalid image type"))
      ELSE IF createErr
        THEN Done(q, <<Call("Create", q.file.filename, FALSE, 0)>>, TRUE,
                  writeErrorMsg(q.w, "image couldn't be created"))
        ELSE Done(q, <<Call("Create", q.file.filename, TRUE, 0)>>, TRUE,
                  writeResponse(q.w, StatusCreated, EmptyBody))

createHandler ==
  /\ mainPc = "serving"
  /\ Routed("create")
  /\ \E f \in Files \cup {NoFile}, createErr \in BOOLEAN :
       LET q == createHandlerRun(NewRequest("create", 0, f), createErr) IN
       /\ last' = q
       /\ store' = Apply(store, q)
  /\ UNCHANGED <<mainPc, constructed, closeCalls, inflight>>

\* ---- updateHandler ----
\* up to and including cs.Delete(id)
updateHandlerDeleteRunOn(q, s, deleteErr) ==
  IF ~q.file.present
    THEN Done(q, <<>>, FALSE, writeErrorMsg(q.w, "error retrieving file"))
    ELSE [q EXCEPT !.pc = "update_create",
                   !.calls = <<Call("Delete", q.id, ~deleteErr, Present(s, q.id))>>]

updateHandlerDeleteRun(q, s, deleteErr) ==
  IF ~q.file.present
    THEN Done(q, <<>>, FALSE, writeErrorMsg(q.w, "error retrieving file"))
    ELSE IF deleteErr
      THEN Done(q, <<Call("Delete", q.id, FALSE, Present(s, q.id))>>, FALSE,
                writeErrorMsg(q.w, "error replacing file"))
      ELSE [q EXCEPT !.pc = "update_create",
                     !.calls = <<Call("Delete", q.id, TRUE, Present(s, q.id))>>]

\* cs.Create(handler.Filename, file) and the response
updateHandlerCreateRunIgnoreErr(q, createErr) ==
  Done(q, Append(q.calls, Call("Create", q.file.filename, ~createErr, 0)), FALSE,
       writeResponse(q.w, StatusOK, EmptyBody))

updateHandlerCreateRun(q, createErr) ==
  IF createErr
    THEN Done(q, Append(q.calls, Call("Create", q.file.filename, FALSE, 0)), FALSE,
              writeErrorMsg(q.w, "image couldn't be created"))
    ELSE Done(q, Append(q.calls, Call("Create", q.file.filename, TRUE, 0)), FALSE,
              writeResponse(q.w, StatusOK, EmptyBody))

updateHandlerDelete(r) ==
  /\ mainPc = "serving"
  /\ Routed("update")
  /\ inflight[r].pc = "idle"
  /\ \E id \in Ids, f \in {x \in Files : x.mimetype \in UpdateMimeTypes} \cup {NoFile},
        deleteErr \in BOOLEAN :
       LET q == updateHandlerDeleteRun(NewRequest("update", id, f), store, deleteErr) IN
       /\ store' = Apply(store, q)
       /\ IF q.pc = "done"
            THEN last' = q /\ UNCHANGED inflight
            ELSE inflight' = [inflight EXCEPT ![r] = q] /\ UNCHANGED last
  /\ UNCHANGED <<mainPc, constructed, closeCalls>>

updateHandlerCreate(r) ==
  /\ mainPc = "serving"
  /\ inflight[r].pc = "update_create"
  /\ \E createErr \in BOOLEAN :
       LET q == updateHandlerCreateRun(inflight[r], createErr) IN
       /\ store' = Apply(store, q)
       /\ last' = q
       /\ inflight' = [inflight EXCEPT ![r] = Idle]
  /\ UNCHANGED <<mainPc, constructed, closeCalls>>

\* ---- readHandler ----
readHandlerRunNoEmptyCheck(q, s, readErr, mapErr, jsonErr) ==
  LET fs == StoreRead(s, q.id)
      is == NewImages(fs)
  IN
  IF readErr
    THEN Done(q, <<Call("Read", q.id, FALSE, 0)>>, FALSE,
              writeErrorMsg(q.w, "failed to read files"))
    ELSE IF mapErr /\ Len(fs) > 0
      THEN Done(q, <<Call("Read", q.id, TRUE, Len(fs)), Call("NewImages", 0, FALSE, 0)>>,
                FALSE,
                writeErrorMsg(q.w, "failed to convert files to images images"))
      ELSE Done(q, <<Call("Read", q.id, TRUE, Len(fs)), Call("NewImages", 0, TRUE, Len(fs)),
                     Call("JSON", 0, ~jsonErr, 0)>>,
                FALSE,
                writeJSON(q.w,
                          [kind |-> "image",
                           image |-> IF Len(is) < 1 THEN [id |-> 0, content |-> Encode(0)]
                                                    ELSE is[1]],
                          StatusOK, jsonErr))

readHandlerRun(q, s, readErr, mapErr, jsonErr) ==
  LET fs == StoreRead(s, q.id)
      is == NewImages(fs)
  IN
  IF readErr
    THEN Done(q, <<Call("Read", q.id, FALSE, 0)>>, FALSE,
              writeErrorMsg(q.w, "failed to read files"))
    ELSE IF mapErr /\ Len(fs) > 0
      THEN Done(q, <<Call("Read", q.id, TRUE, Len(fs)), Call("NewImages", 0, FALSE, 0)>>,
                FALSE,
                writeErrorMsg(q.w, "failed to convert files to images images"))
      ELSE IF Len(is) < 1
        THEN Done(q, <<Call("Read", q.id, TRUE, Len(fs)),
                       Call("NewImages", 0, TRUE, Len(fs))>>,
                  FALSE,
                  writeResponse(q.w, StatusNoContent, EmptyBody))
        ELSE Done(q, <<Call("Read", q.id, TRUE, Len(fs)),
                       Call("NewImages", 0, TRUE, Len(fs)),
                       Call("JSON", 0, ~jsonErr, 0)>>,
                  FALSE,
                  writeJSON(q.w, [kind |-> "image", image |-> is[1]],
                            StatusOK, jsonErr))

readHandler ==
  /\ mainPc = "serving"
  /\ Routed("read")
  /\ \E id \in Ids, readErr \in BOOLEAN, mapErr \in BOOLEAN, jsonErr \in BOOLEAN :
       last' = readHandlerRun(NewRequest("read", id, NoFile), store,
                              readErr, mapErr, jsonErr)
  /\ UNCHANGED <<mainPc, constructed, closeCalls, store, inflight>>

\* ---- deleteHandler ----
\* Message.JSON marshals a struct of two strings and cannot fail.
deleteHandlerRunIgnoreErr(q, s, deleteErr) ==
  Done(q, <<Call("Delete", q.id, ~deleteErr, Present(s, q.id)), Call("JSON", 0, TRUE, 0)>>,
       FALSE,
       writeJSON(q.w, Message("image deleted", <<"image id: ", q.id>>),
                 StatusNoContent, FALSE))

deleteHandlerRun(q, s, deleteErr) ==
  IF deleteErr
    THEN Done(q, <<Call("Delete", q.id, FALSE, Present(s, q.id))>>, FALSE,
              writeErrorMsg(q.w, "backend error"))
    ELSE Done(q, <<Call("Delete", q.id, TRUE, Present(s, q.id)), Call("JSON", 0, TRUE, 0)>>,
              FALSE,
              writeJSON(q.w, Message("image deleted", <<"image id: ", q.id>>),
                        StatusNoContent, FALSE))

deleteHandler ==
  /\ mainPc = "serving"
  /\ Routed("delete")
  /\ \E id \in Ids, deleteErr \in BOOLEAN :
       LET q == deleteHandlerRun(NewRequest("delete", id, NoFile), store, deleteErr) IN
       /\ last' = q
       /\ store' = Apply(store, q)
  /\ UNCHANGED <<mainPc, constructed, closeCalls, inflight>>

Next ==
  \/ NewCloudStorageOk
  \/ NewCloudStorageFail
  \/ ListenAndServeFatal
  \/ listHandler
  \/ createHandler
  \/ \E r \in Reqs : updateHandlerDelete(r)
  \/ \E r \in Reqs : updateHandlerCreate(r)
  \/ readHandler
  \/ deleteHandler

Spec == Init /\ [][Next]_vars

\* every request record of the state: the last finished one and those in flight
Records == {last} \cup {inflight[r] : r \in Reqs}

\* the allow-list as the specification states it
AllowList == {"image/png", "image/jpeg", "image/gif"}

Called(q, op) == \E i \in 1..Len(q.calls) : q.calls[i].op = op

Finished(q) == q.pc = "done"

TypeOK ==
  /\ mainPc \in {"start", "serving", "exited"}
  /\ store \in [Ids -> Contents \cup {Absent}]
  /\ \A q \in Records : Len(q.w) <= 2

AllOk(calls) == \A i \in 1..Len(calls) : calls[i].ok

IsError(resp) == resp.status = 500 /\ resp.body.kind = "error"

DeletedMessage(id) ==
  [kind |-> "message", text |-> "image deleted", details |-> <<"image id: ", id>>]

\* ---------------------------------------------------------------------------
\* C1: a POST /image request that carries a file reaches cs.Create exactly when
\* the part's Content-Type is one of image/png, image/jpeg, image/gif; when it
\* is not, the response is 500 with an error body and the bucket is unchanged.
C1_Step ==
  (last'.route = "create" /\ last'.file.present /\ inflight' = inflight /\ createHandler) =>
    /\ Called(last', "Create") <=> last'.file.mimetype \in AllowList
    /\ last'.file.mimetype \notin AllowList =>
         /\ Len(last'.w) = 1
         /\ IsError(last'.w[1])
         /\ store' = store

C1_CreateIffAllowed == [][C1_Step]_vars

C1_Witness ==
  /\ last.route = "create"
  /\ last.file.present
  /\ last.file.mimetype = "IMAGE/PNG"
  /\ Finished(last)
  /\ ~Called(last, "Create")
  /\ IsError(last.w[1])

\* C2: MimeMap.Valid is consulted on create and update requests and on no
\* other route; an update request has been checked against the allow-list
\* before it makes any storage call.
C2_ValidatedOnCreateAndUpdate ==
  \A q \in Records :
    /\ q.validated => q.route \in {"create", "update"}
    /\ (q.route \in {"create", "update"} /\ q.calls # <<>>) => q.validated

\* C3: an update request calls Delete(id) first and Create(filename) only after
\* Delete returned no error.  When Delete fails the request ends with 500, the
\* bucket as it was and no Create; when Delete succeeds the id is absent from
\* the bucket, and a Create that then fails ends the request with 500 and
\* leaves the bucket as the Delete left it.
C3_Order ==
  \A q \in Records : q.route = "update" =>
    /\ Len(q.calls) <= 2
    /\ Len(q.calls) >= 1 => q.calls[1].op = "Delete" /\ q.calls[1].arg = q.id
    /\ Len(q.calls) = 2 =>
         /\ q.calls[1].ok
         /\ q.calls[2].op = "Create"
         /\ q.calls[2].arg = q.file.filename
    /\ (Len(q.calls) >= 1 /\ ~q.calls[1].ok) =>
         Len(q.calls) = 1 /\ Finished(q) /\ Len(q.w) = 1 /\ IsError(q.w[1])
    /\ (Len(q.calls) = 2 /\ ~q.calls[2].ok) =>
         Finished(q) /\ Len(q.w) = 1 /\ IsError(q.w[1])

C3_Step ==
  \A r \in Reqs :
    /\ (inflight[r].pc = "idle" /\ inflight'[r].pc = "update_create") =>
         store' = [store EXCEPT ![inflight'[r].id] = Absent]
    /\ (inflight[r].pc = "idle" /\ inflight'[r].pc = "idle" /\ last'.route = "update"
          /\ updateHandlerDelete(r)) => store' = store
    /\ (inflight[r].pc = "update_create" /\ updateHandlerCreate(r)
          /\ ~last'.calls[2].ok) => store' = store

C3_DeleteThenCreate == [](C3_Order) /\ [][C3_Step]_vars

C3_Witness ==
  /\ last.route = "update"
  /\ Len(last.calls) = 2
  /\ last.calls[1].ok
  /\ ~last.calls[2].ok
  /\ IsError(last.w[1])
  /\ store[last.id] = Absent

\* C4: once a PUT to the id of an existing object has succeeded with new bytes
\* B2, the next GET of that id that the backend serves without error returns
\* 200 with an Image of that id whose content is B2, whatever filename the PUT
\* carried.
C4_Step ==
  ( /\ Finished(last)
    /\ last.route = "update"
    /\ last.w[1].status = StatusOK
    /\ last.calls[1].n = 1
    /\ \A r \in Reqs : inflight[r].pc = "idle"
    /\ last'.route = "read"
    /\ last'.id = last.id
    /\ AllOk(last'.calls)
    /\ readHandler ) =>
      /\ last'.w[1].status = StatusOK
      /\ last'.w[1].body =
           [kind |-> "image",
            image |-> [id |-> last.id, content |-> Encode(last.file.content)]]

C4_ReplaceThenRead == [][C4_Step]_vars

\* C5 (as claimed): DELETE of an id that has no object answers 204 with the
\* "image deleted" Message.
C5_DeleteAbsentSucceeds ==
  (last.route = "delete" /\ Finished(last) /\ last.calls[1].n = 0) =>
    /\ last.w[1].status = StatusNoContent
    /\ last.w[1].body = DeletedMessage(last.id)

\* C5 (amended): DELETE answers 204 with the "image deleted" Message exactly
\* when cs.Delete returned no error, whether or not the object existed, and
\* 500 with an error body when cs.Delete returned an error.
C5_DeleteFollowsBackend ==
  (last.route = "delete" /\ Finished(last)) =>
    /\ Len(last.w) = 1
    /\ last.calls[1].op = "Delete" /\ last.calls[1].arg = last.id
    /\ last.calls[1].ok =>
         /\ last.w[1].status = StatusNoContent
         /\ last.w[1].body = DeletedMessage(last.id)
    /\ ~last.calls[1].ok => IsError(last.w[1])

C5_Witness ==
  /\ last.route = "delete"
  /\ last.calls[1].n = 0
  /\ ~last.calls[1].ok
  /\ IsError(last.w[1])

\* C6: GET /image/{id} answers 204 with an empty body exactly when Read
\* succeeded with zero descriptors; it answers 200 only with the Image of that
\* id, after Read returned a descriptor; with zero descriptors it never
\* answers a JSON object.
C6_ReadNotFound ==
  (last.route = "read" /\ Finished(last)) =>
    LET rd == last.calls[1]
        resp == last.w[1]
    IN /\ rd.op = "Read" /\ rd.arg = last.id
       /\ resp.status = StatusNoContent <=> (rd.ok /\ rd.n = 0)
       /\ resp.status = StatusNoContent => resp.body = [kind |-> "empty"]
       /\ resp.status = StatusOK =>
            /\ rd.ok /\ rd.n >= 1
            /\ resp.body.kind = "image"
            /\ resp.body.image.id = last.id
       /\ rd.n = 0 => resp.body.kind \in {"empty", "error"}

C6_Witness ==
  /\ last.route = "read"
  /\ last.calls[1].ok
  /\ last.calls[1].n = 0
  /\ last.w[1].status = StatusNoContent

\* C7: when the process has stopped, cs.Close() has run exactly once if the
\* gateway was constructed, and not at all if its construction failed.
C7_CloseOnceAtShutdown ==
  /\ (mainPc = "exited" /\ constructed) => closeCalls = 1
  /\ ~constructed => closeCalls = 0

\* C8: a request in which anything failed (no file, disallowed type, an error
\* from List/Read/Create/Delete, from NewImages or from JSON) is answered 500
\* with an error body; the only statuses are 200, 201, 204 and 500; and 200,
\* 201, 204 are written only when every storage call of the request succeeded.
Failure(q) ==
  \/ q.route \in {"create", "update"} /\ ~q.file.present
  \/ q.route = "create" /\ q.file.present /\ q.file.mimetype \notin AllowList
  \/ ~AllOk(q.calls)

C8_ErrorsAre500 ==
  Finished(last) =>
    /\ Len(last.w) >= 1
    /\ \A i \in 1..Len(last.w) :
         /\ last.w[i].status \in {200, 201, 204, 500}
         /\ last.w[i].status = 500 <=> last.w[i].body.kind = "error"
         /\ Failure(last) => IsError(last.w[i])
         /\ last.w[i].status \in {200, 201, 204} => AllOk(StorageCalls(last.calls))

C8_Witness ==
  /\ Finished(last)
  /\ \E i \in 1..Len(last.calls) : last.calls[i].op = "NewImages" /\ ~last.calls[i].ok
  /\ IsError(last.w[1])

\* C9: within one request no storage operation is called twice, and a storage
\* call that returns an error is the last call of the request, which ends at
\* once with a 500 response.
C9_NoRetries ==
  \A q \in Records :
    LET sc == StorageCalls(q.calls) IN
    /\ \A i, j \in 1..Len(sc) : i # j => sc[i].op # sc[j].op
    /\ \A i \in 1..Len(sc) : ~sc[i].ok =>
         /\ i = Len(sc)
         /\ q.calls[Len(q.calls)] = sc[i]
         /\ Finished(q)
         /\ Len(q.w) = 1
         /\ IsError(q.w[1])

C9_Witness ==
  /\ last.route = "update"
  /\ Len(last.calls) = 1
  /\ ~last.calls[1].ok
  /\ IsError(last.w[1])

\* C10: a request whose handler has returned has written exactly one response,
\* also when JSON failed inside writeJSON; a request still in its handler has
\* written none.
C10_ExactlyOneResponse ==
  /\ \A r \in Reqs : ~Finished(inflight[r]) /\ inflight[r].w = <<>>
  /\ last = Idle \/ (Finished(last) /\ Len(last.w) = 1)

C10_Witness ==
  /\ Finished(last)
  /\ \E i \in 1..Len(last.calls) : last.calls[i].op = "JSON" /\ ~last.calls[i].ok
  /\ Len(last.w) = 1

====
